---- MODULE Spec2Model ----
(***************************************************************************)
(* Vector kernel of wasm/rust/src/lib.rs: three static f64 buffers         *)
(* (BUFFER_A, BUFFER_B, RESULT) in linear memory, five exported vector     *)
(* operations over them and four accessors.  The host learns the buffers'  *)
(* offsets from the accessors, stores operands into linear memory at those *)
(* offsets and calls the operations.                                       *)
(*                                                                         *)
(* Scaling.  CAPACITY is 100_000 in the source; the model keeps the code   *)
(* and shrinks the number (CAPACITY below).  u32 and usize are 32 bits     *)
(* wide; the model keeps the wrap-around and shrinks the width (WordBits). *)
(* f64 keeps 53 significant bits; the model keeps IEEE round-to-nearest-   *)
(* even on integer-valued doubles and shrinks the number of significant    *)
(* bits (MantBits), so that the order of additions is observable on small  *)
(* values.                                                                 *)
(***************************************************************************)
EXTENDS Integers, FiniteSets, Sequences, TLC

(* ------------------------------ bounds -------------------------------- *)

\* const CAPACITY: usize = 100_000, scaled down
CAPACITY == 8
\* significant bits of the modelled f64 (53 in IEEE 754), scaled down
MantBits == 7
\* requested lengths run from 0 to CAPACITY + MaxOver, plus u32::MAX
MaxOver == 1
\* width in bits of u32 and of usize on wasm32 (32 in the source), scaled down
WordBits == 16

(* --------------------------- machine integers -------------------------- *)

RECURSIVE Pow2(_)
Pow2(n) == IF n = 0 THEN 1 ELSE 2 * Pow2(n - 1)

\* u32::MAX, the largest len the ABI can pass
U32_MAX == Pow2(WordBits) - 1

\* usize on wasm32 is as wide as u32
USIZE_MOD == Pow2(WordBits)

\* `len as usize`: u32 -> usize is lossless on wasm32
as_usize(len) == len % USIZE_MOD

\* `x as u32`
as_u32(x) == x % Pow2(WordBits)

\* min with the comparison slipped: clamps to CAPACITY + 1
min_slipped(a, b) == IF a <= b THEN a ELSE b + 1

\* usize::min
min(a, b) == IF a < b THEN a ELSE b

\* usize `+` in a release build: wraps modulo 2^WordBits
add_usize(a, b) == (a + b) % USIZE_MOD

\* whether usize `a + b` overflows (a panic in a debug build, a wrap in release)
add_overflows(a, b) == a + b >= USIZE_MOD

(* -------------------------------- f64 ---------------------------------- *)

Abs(z) == IF z < 0 THEN 0 - z ELSE z

\* number of bits of a natural number
RECURSIVE BitLen(_)
BitLen(n) == IF n = 0 THEN 0 ELSE 1 + BitLen(n \div 2)

\* round an integer to the nearest double with MantBits significant bits,
\* ties to even
RoundF64(z) ==
  LET m == Abs(z)
      sgn == IF z < 0 THEN 0 - 1 ELSE 1
  IN IF BitLen(m) <= MantBits THEN z
     ELSE LET ulp == Pow2(BitLen(m) - MantBits)
              q == m \div ulp
              r == m % ulp
              up == \/ 2 * r > ulp
                    \/ (2 * r = ulp /\ q % 2 = 1)
          IN sgn * ulp * (IF up THEN q + 1 ELSE q)

\* f64 `+`
fadd(x, y) == RoundF64(x + y)

\* f64 `*`
fmul(x, y) == RoundF64(x * y)

(* --------------------------- linear memory ----------------------------- *)

\* the three statics of lines 51-53
BufNames == {"BUFFER_A", "BUFFER_B", "RESULT"}

\* indices of [f64; CAPACITY]
Indices == 0 .. (CAPACITY - 1)

\* size_of::<[f64; CAPACITY]>() in bytes
BufBytes == 8 * CAPACITY

\* placements of the three statics the linker may choose: non-overlapping,
\* 8-byte aligned, inside the address space (in declaration order and
\* adjacent; or reordered, apart, one of them near the top of memory)
Layouts ==
  { [BUFFER_A |-> BufBytes, BUFFER_B |-> 2 * BufBytes, RESULT |-> 3 * BufBytes],
    [BUFFER_A |-> 4 * BufBytes, BUFFER_B |-> USIZE_MOD - 2 * BufBytes, RESULT |-> BufBytes] }

\* requested lengths: every length up to CAPACITY + MaxOver, and u32::MAX
Lens == (0 .. (CAPACITY + MaxOver)) \cup {U32_MAX}

\* scalars passed to scale
Scalars == {0, 3}

\* what a load from memory outside the three buffers may yield
Junk == {0, 1}

\* StaticBuffer::new(): [0.0; CAPACITY]
new == [i \in Indices |-> 0]

\* operand vectors the host copies into BUFFER_A and BUFFER_B:
\* 1, 2, 3, ... and 10, 20, 30, ... (the vectors of the spec's scenario), and
\* the smallest double x with x + 1 = x followed by ones
Ramp == [i \in Indices |-> i + 1]
Tens == [i \in Indices |-> 10 * (i + 1)]
Big == [i \in Indices |-> IF i = 0 THEN Pow2(MantBits) ELSE 1]
Operands == {Ramp, Tens, Big}

\* what an earlier run may have left in RESULT: nothing, or the products of
\* mul(CAPACITY) over BUFFER_A = BUFFER_B = Ramp
Stale == [i \in Indices |-> (i + 1) * (i + 1)]
Leftovers == {new, Stale}

\* the host has not yet asked for this offset
Unknown == 0 - 1

VARIABLES
  base,    \* address of each static, fixed at link time
  mem,     \* contents of BUFFER_A, BUFFER_B and RESULT
  known,   \* the offsets the host has obtained (the first value returned)
  call,    \* the exported call that has just returned: function, arguments,
           \* result, accesses; fn = "none" while the host is between calls
  pre      \* contents of the buffers when that call started

vars == <<base, mem, known, call, pre>>

\* the cell an address designates: a buffer element, or memory outside
\* the three buffers
Resolve(a) ==
  LET hit == {n \in BufNames : base[n] <= a /\ a < base[n] + BufBytes}
  IN IF hit = {} THEN [buf |-> "outside", idx |-> 0]
     ELSE LET n == CHOOSE b \in hit : TRUE
          IN [buf |-> n, idx |-> (a - base[n]) \div 8]

\* self.as_ptr().add(i): the cell at byte offset 8*i from the static's base
\* (an index >= CAPACITY leaves the array and lands wherever the layout puts it)
ptr_add(name, i) ==
  IF i < CAPACITY THEN [buf |-> name, idx |-> i]
  ELSE Resolve((base[name] + 8 * i) % USIZE_MOD)

\* the state of one call in progress: memory, the indices passed to get and
\* set per buffer, whether a usize addition wrapped, the value a load from
\* outside the buffers yields
Begin(m, junk) ==
  [mem |-> m,
   rd |-> [n \in BufNames |-> {}],
   wr |-> [n \in BufNames |-> {}],
   wrapped |-> FALSE,
   junk |-> junk]

\* StaticBuffer::get: the value loaded
get(x, name, i) ==
  LET c == ptr_add(name, i)
  IN IF c.buf = "outside" THEN x.junk ELSE x.mem[c.buf][c.idx]

\* StaticBuffer::get: the access recorded
got(x, name, i) == [x EXCEPT !.rd[name] = @ \cup {i}]

\* StaticBuffer::set
set(x, name, i, val) ==
  LET c == ptr_add(name, i)
      y == [x EXCEPT !.wr[name] = @ \cup {i}]
  IN IF c.buf = "outside" THEN y
     ELSE [y EXCEPT !.mem[c.buf][c.idx] = val]

\* every index passed to get or set was inside the array
InBounds(x) ==
  \A n \in BufNames : x.rd[n] \cup x.wr[n] \subseteq Indices

(* ----------------------------- operations ------------------------------ *)

\* no lanes: the four partial sums of a call that is not sum_simd
NoLanes == <<0, 0, 0, 0>>

\* the result of a call: final state of the call, return value, partial sums
Done(x, ret, lanes) == [x |-> x, ret |-> ret, lanes |-> lanes]

\* sum accumulating from the last element down to the first
RECURSIVE sum_for_backwards(_, _, _, _)
sum_for_backwards(x, i, len, s) ==
  IF i < len
  THEN sum_for_backwards(got(x, "BUFFER_A", len - 1 - i), i + 1, len,
                         fadd(s, get(x, "BUFFER_A", len - 1 - i)))
  ELSE Done(x, s, NoLanes)

\* sum, lines 60-62: for i in 0..len { s += BUFFER_A.get(i) }
RECURSIVE sum_for(_, _, _, _)
sum_for(x, i, len, s) ==
  IF i < len
  THEN sum_for(got(x, "BUFFER_A", i), i + 1, len,
               fadd(s, get(x, "BUFFER_A", i)))
  ELSE Done(x, s, NoLanes)

\* sum, lines 57-64, run on memory m
sum_body(m, len, junk) ==
  sum_for(Begin(m, junk), 0, min(as_usize(len), CAPACITY), 0)

\* dot that also keeps each product in RESULT, as mul does
RECURSIVE dot_for_storing(_, _, _, _)
dot_for_storing(x, i, len, d) ==
  IF i < len
  THEN dot_for_storing(
         set(got(got(x, "BUFFER_A", i), "BUFFER_B", i), "RESULT", i,
             fmul(get(x, "BUFFER_A", i), get(x, "BUFFER_B", i))),
         i + 1, len,
         fadd(d, fmul(get(x, "BUFFER_A", i), get(x, "BUFFER_B", i))))
  ELSE Done(x, d, NoLanes)

\* dot pairing A[i] with the element of BUFFER_B mirrored in [0, len)
RECURSIVE dot_for_mirrored(_, _, _, _)
dot_for_mirrored(x, i, len, d) ==
  IF i < len
  THEN dot_for_mirrored(
         got(got(x, "BUFFER_A", i), "BUFFER_B", len - 1 - i), i + 1, len,
         fadd(d, fmul(get(x, "BUFFER_A", i), get(x, "BUFFER_B", len - 1 - i))))
  ELSE Done(x, d, NoLanes)

\* dot, lines 72-74: for i in 0..len { d += BUFFER_A.get(i) * BUFFER_B.get(i) }
RECURSIVE dot_for(_, _, _, _)
dot_for(x, i, len, d) ==
  IF i < len
  THEN dot_for(got(got(x, "BUFFER_A", i), "BUFFER_B", i), i + 1, len,
               fadd(d, fmul(get(x, "BUFFER_A", i), get(x, "BUFFER_B", i))))
  ELSE Done(x, d, NoLanes)

\* dot, lines 69-76, run on memory m
dot_body(m, len, junk) ==
  dot_for(Begin(m, junk), 0, min(as_usize(len), CAPACITY), 0)

\* mul over the inclusive range 0..=len
RECURSIVE mul_for_inclusive(_, _, _)
mul_for_inclusive(x, i, len) ==
  IF i <= len
  THEN mul_for_inclusive(
         set(got(got(x, "BUFFER_A", i), "BUFFER_B", i), "RESULT", i,
             fmul(get(x, "BUFFER_A", i), get(x, "BUFFER_B", i))),
         i + 1, len)
  ELSE Done(x, 0, NoLanes)

\* mul squaring BUFFER_A instead of multiplying by BUFFER_B
RECURSIVE mul_for_squaring(_, _, _)
mul_for_squaring(x, i, len) ==
  IF i < len
  THEN mul_for_squaring(
         set(got(x, "BUFFER_A", i), "RESULT", i,
             fmul(get(x, "BUFFER_A", i), get(x, "BUFFER_A", i))),
         i + 1, len)
  ELSE Done(x, 0, NoLanes)

\* mul, lines 83-85: for i in 0..len { RESULT.set(i, A.get(i) * B.get(i)) }
RECURSIVE mul_for(_, _, _)
mul_for(x, i, len) ==
  IF i < len
  THEN mul_for(set(got(got(x, "BUFFER_A", i), "BUFFER_B", i), "RESULT", i,
                   fmul(get(x, "BUFFER_A", i), get(x, "BUFFER_B", i))),
               i + 1, len)
  ELSE Done(x, 0, NoLanes)

\* mul, lines 81-86, run on memory m
mul_body(m, len, junk) ==
  mul_for(Begin(m, junk), 0, min(as_usize(len), CAPACITY))

\* scale writing the scaled elements to RESULT instead of in place
RECURSIVE scale_for_into_result(_, _, _, _)
scale_for_into_result(x, i, len, scalar) ==
  IF i < len
  THEN scale_for_into_result(
         set(got(x, "BUFFER_A", i), "RESULT", i,
             fmul(get(x, "BUFFER_A", i), scalar)),
         i + 1, len, scalar)
  ELSE Done(x, 0, NoLanes)

\* scale whose loop tests after the body: the first element is always scaled
RECURSIVE scale_for_do_while(_, _, _, _)
scale_for_do_while(x, i, len, scalar) ==
  LET y == set(got(x, "BUFFER_A", i), "BUFFER_A", i,
               fmul(get(x, "BUFFER_A", i), scalar))
  IN IF i + 1 < len
     THEN scale_for_do_while(y, i + 1, len, scalar)
     ELSE Done(y, 0, NoLanes)

\* scale, lines 93-95: for i in 0..len { A.set(i, A.get(i) * scalar) }
RECURSIVE scale_for(_, _, _, _)
scale_for(x, i, len, scalar) ==
  IF i < len
  THEN scale_for(set(got(x, "BUFFER_A", i), "BUFFER_A", i,
                     fmul(get(x, "BUFFER_A", i), scalar)),
                 i + 1, len, scalar)
  ELSE Done(x, 0, NoLanes)

\* scale, lines 91-96, run on memory m
scale_body(m, scalar, len, junk) ==
  scale_for(Begin(m, junk), 0, min(as_usize(len), CAPACITY), scalar)

\* a usize addition in the call in progress: note whether it wrapped
plus(x, a, b) == [x EXCEPT !.wrapped = @ \/ add_overflows(a, b)]

\* remainder loop folding the leftover elements into sum3 instead of sum0
RECURSIVE simd_rest_into_sum3(_, _, _, _)
simd_rest_into_sum3(x, i, len, lanes) ==
  IF i < len
  THEN simd_rest_into_sum3(plus(got(x, "BUFFER_A", i), i, 1), add_usize(i, 1),
                           len,
                           [lanes EXCEPT ![4] = fadd(@, get(x, "BUFFER_A", i))])
  ELSE Done(x, fadd(fadd(fadd(lanes[1], lanes[2]), lanes[3]), lanes[4]), lanes)

\* sum_simd, lines 117-122: while i < len { sum0 += A.get(i); i += 1 },
\* then sum0 + sum1 + sum2 + sum3
RECURSIVE simd_rest(_, _, _, _)
simd_rest(x, i, len, lanes) ==
  IF i < len
  THEN simd_rest(plus(got(x, "BUFFER_A", i), i, 1), add_usize(i, 1), len,
                 [lanes EXCEPT ![1] = fadd(@, get(x, "BUFFER_A", i))])
  ELSE Done(x, fadd(fadd(fadd(lanes[1], lanes[2]), lanes[3]), lanes[4]), lanes)

\* sum_simd, lines 110-116: the 4-way unrolled loop, then the remainder loop
RECURSIVE simd_while(_, _, _, _)
simd_while(x, i, len, lanes) ==
  LET x0 == plus(x, i, 3)
  IN IF add_usize(i, 3) < len
     THEN LET x1 == got(x0, "BUFFER_A", i)
              x2 == got(plus(x1, i, 1), "BUFFER_A", add_usize(i, 1))
              x3 == got(plus(x2, i, 2), "BUFFER_A", add_usize(i, 2))
              x4 == got(plus(x3, i, 3), "BUFFER_A", add_usize(i, 3))
          IN simd_while(plus(x4, i, 4), add_usize(i, 4), len,
               <<fadd(lanes[1], get(x, "BUFFER_A", i)),
                 fadd(lanes[2], get(x, "BUFFER_A", add_usize(i, 1))),
                 fadd(lanes[3], get(x, "BUFFER_A", add_usize(i, 2))),
                 fadd(lanes[4], get(x, "BUFFER_A", add_usize(i, 3)))>>)
     ELSE simd_rest(x0, i, len, lanes)

\* sum_simd, lines 101-122, run on memory m
sum_simd_body(m, len, junk) ==
  simd_while(Begin(m, junk), 0, min(as_usize(len), CAPACITY), NoLanes)

(* ------------------------------ the host -------------------------------- *)

\* the record while the host is between calls
NoCall ==
  [fn |-> "none", len |-> 0, scalar |-> 0, ret |-> 0, lanes |-> NoLanes,
   rd |-> [n \in BufNames |-> {}], wr |-> [n \in BufNames |-> {}],
   wrapped |-> FALSE]

\* the host is between calls: every exported function runs to completion
\* before the host does anything else
Idle == call.fn = "none"

\* an exported call returns: memory, the record of the call
Return(fn, len, scalar, r) ==
  /\ mem' = r.x.mem
  /\ pre' = mem
  /\ call' = [fn |-> fn, len |-> len, scalar |-> scalar, ret |-> r.ret,
              lanes |-> r.lanes, rd |-> r.x.rd, wr |-> r.x.wr,
              wrapped |-> r.x.wrapped]
  /\ UNCHANGED <<base, known>>

\* an operation has run, with outcome r if a load from outside the buffers
\* yields 0 and outcomes rs over all it may yield: the accesses do not depend
\* on what is loaded, and if none left the arrays nothing is loaded from outside
Run(fn, len, scalar, r, rs) ==
  IF InBounds(r.x)
  THEN Return(fn, len, scalar, r)
  ELSE \E q \in rs : Return(fn, len, scalar, q)

\* the memory images the host prepares before a mutating call: operands (or
\* nothing yet) in BUFFER_A and BUFFER_B, and in RESULT what was left there
Prepared ==
  /\ mem["BUFFER_A"] \in Operands \cup {new}
  /\ mem["BUFFER_B"] \in Operands \cup {new}
  /\ mem["RESULT"] \in Leftovers

\* pub extern "C" fn sum(len: u32) -> f64
sum(len) ==
  /\ Idle
  /\ Run("sum", len, 0, sum_body(mem, len, 0),
         {sum_body(mem, len, junk) : junk \in Junk})

\* pub extern "C" fn dot(len: u32) -> f64
dot(len) ==
  /\ Idle
  /\ Run("dot", len, 0, dot_body(mem, len, 0),
         {dot_body(mem, len, junk) : junk \in Junk})

\* pub extern "C" fn mul(len: u32)
mul(len) ==
  /\ Idle
  /\ Prepared
  /\ Run("mul", len, 0, mul_body(mem, len, 0),
         {mul_body(mem, len, junk) : junk \in Junk})

\* pub extern "C" fn scale(scalar: f64, len: u32)
scale(scalar, len) ==
  /\ Idle
  /\ Prepared
  /\ Run("scale", len, scalar, scale_body(mem, scalar, len, 0),
         {scale_body(mem, scalar, len, junk) : junk \in Junk})

\* pub extern "C" fn sum_simd(len: u32) -> f64
sum_simd(len) ==
  /\ Idle
  /\ Run("sum_simd", len, 0, sum_simd_body(mem, len, 0),
         {sum_simd_body(mem, len, junk) : junk \in Junk})

\* an accessor returns: no buffer is touched
Answer(fn, ret) ==
  /\ Idle
  /\ call' = [NoCall EXCEPT !.fn = fn, !.ret = ret]
  /\ pre' = mem
  /\ UNCHANGED <<base, mem>>

\* the host keeps the first value it was given for each offset
Learn(name, ret) ==
  IF known[name] = Unknown THEN [known EXCEPT ![name] = ret] ELSE known

\* addr_of!(BUFFER_A) as u32
get_buffer_a_offset ==
  /\ Answer("get_buffer_a_offset", as_u32(base["BUFFER_A"]))
  /\ known' = Learn("BUFFER_A", as_u32(base["BUFFER_A"]))

\* addr_of!(BUFFER_B) as u32
get_buffer_b_offset ==
  /\ Answer("get_buffer_b_offset", as_u32(base["BUFFER_B"]))
  /\ known' = Learn("BUFFER_B", as_u32(base["BUFFER_B"]))

\* get_result_offset taking the address of BUFFER_B
get_result_offset_of_b ==
  /\ Answer("get_result_offset", as_u32(base["BUFFER_B"]))
  /\ known' = Learn("RESULT", as_u32(base["BUFFER_B"]))

\* addr_of!(RESULT) as u32
get_result_offset ==
  /\ Answer("get_result_offset", as_u32(base["RESULT"]))
  /\ known' = Learn("RESULT", as_u32(base["RESULT"]))

\* CAPACITY as u32
get_capacity ==
  /\ Answer("get_capacity", as_u32(CAPACITY))
  /\ UNCHANGED known

\* the host takes the result of the call and goes on
Resume ==
  /\ ~Idle
  /\ call' = NoCall
  /\ pre' = mem
  /\ UNCHANGED <<base, mem, known>>

\* memory m after a store of an f64 at an address of linear memory
Store(m, a, val) ==
  LET c == Resolve(a % USIZE_MOD)
  IN IF c.buf = "outside" THEN m ELSE [m EXCEPT ![c.buf][c.idx] = val]

\* memory m after the elements i.. of data are stored from address a on
RECURSIVE Copy(_, _, _, _)
Copy(m, a, data, i) ==
  IF i < CAPACITY
  THEN Copy(Store(m, a + 8 * i, data[i]), a, data, i + 1)
  ELSE m

\* the host copies an operand into BUFFER_A or BUFFER_B: stores from the offset
\* the accessor gave it, 8 bytes per element
HostWrite(name, data) ==
  /\ Idle
  /\ known[name] # Unknown
  /\ mem' = Copy(mem, known[name], data, 0)
  /\ pre' = mem'
  /\ call' = NoCall
  /\ UNCHANGED <<base, known>>

\* module instantiation: the statics are placed, BUFFER_A and BUFFER_B hold
\* 0.0; RESULT holds 0.0, or what an earlier run of a host that had obtained
\* the offsets left there
Init ==
  /\ base \in Layouts
  /\ \E left \in Leftovers :
       /\ mem = [BUFFER_A |-> new, BUFFER_B |-> new, RESULT |-> left]
       /\ known = IF left = new THEN [n \in BufNames |-> Unknown]
                  ELSE [n \in BufNames |-> as_u32(base[n])]
  /\ call = NoCall
  /\ pre = mem

Next ==
  \/ \E name \in {"BUFFER_A", "BUFFER_B"}, data \in Operands :
       HostWrite(name, data)
  \/ \E len \in Lens : sum(len)
  \/ \E len \in Lens : dot(len)
  \/ \E len \in Lens : mul(len)
  \/ \E scalar \in Scalars, len \in Lens : scale(scalar, len)
  \/ \E len \in Lens : sum_simd(len)
  \/ get_buffer_a_offset
  \/ get_buffer_b_offset
  \/ get_result_offset
  \/ get_capacity
  \/ Resume

Spec == Init /\ [][Next]_vars

(* ------------------------------- claims --------------------------------- *)

\* the operations that return a scalar and write nothing
Readers == {"sum", "dot", "sum_simd"}

\* the four accessors
Accessors ==
  {"get_buffer_a_offset", "get_buffer_b_offset", "get_result_offset",
   "get_capacity"}

\* effective length of a requested length
Effective(len) == IF len > CAPACITY THEN CAPACITY ELSE len

\* left-to-right running total of f[0..n): 0, then + f[0], then + f[1], ...
RECURSIVE Total(_, _)
Total(f, n) == IF n = 0 THEN 0 ELSE fadd(Total(f, n - 1), f[n - 1])

\* elementwise products of two buffers
Products(f, g) == [i \in Indices |-> fmul(f[i], g[i])]

\* what the operation fn returns and leaves in memory when run on memory m
Outcome(fn, m, scalar, len) ==
  LET r == CASE fn = "sum" -> sum_body(m, len, 0)
             [] fn = "dot" -> dot_body(m, len, 0)
             [] fn = "mul" -> mul_body(m, len, 0)
             [] fn = "scale" -> scale_body(m, scalar, len, 0)
             [] fn = "sum_simd" -> sum_simd_body(m, len, 0)
  IN [ret |-> r.ret, mem |-> r.x.mem]

\* C1: whatever length is requested, every index an operation passes to get or
\* set on BUFFER_A, BUFFER_B or RESULT lies in [0, CAPACITY), the look-ahead
\* indices of sum_simd included, and no usize addition of sum_simd wraps.
C1_IndicesInBounds ==
  /\ \A n \in BufNames : call.rd[n] \cup call.wr[n] \subseteq Indices
  /\ ~call.wrapped

\* sum_simd was asked for u32::MAX elements and read the last element
C1_Witness ==
  /\ call.fn = "sum_simd"
  /\ call.len = U32_MAX
  /\ (CAPACITY - 1) \in call.rd["BUFFER_A"]

\* C2: an operation asked for more than CAPACITY elements returns what it
\* returns for CAPACITY elements on the same contents and leaves the same
\* contents.
C2_ClampedToCapacity ==
  (call.fn \in Readers \cup {"mul", "scale"} /\ call.len > CAPACITY) =>
    LET at_cap == Outcome(call.fn, pre, call.scalar, CAPACITY)
    IN /\ call.ret = at_cap.ret
       /\ mem = at_cap.mem

\* scale was asked for u32::MAX elements and changed BUFFER_A
C2_Witness ==
  /\ call.fn = "scale"
  /\ call.len = U32_MAX
  /\ mem["BUFFER_A"] # pre["BUFFER_A"]
  /\ pre["BUFFER_B"] # new

\* C3: mul(n) leaves RESULT[i] = A[i]*B[i] below the effective length, leaves
\* RESULT at and above it as it was, and leaves BUFFER_A and BUFFER_B alone.
C3_MulFrame ==
  call.fn = "mul" =>
    /\ \A i \in Indices :
         mem["RESULT"][i] =
           IF i < Effective(call.len)
           THEN fmul(pre["BUFFER_A"][i], pre["BUFFER_B"][i])
           ELSE pre["RESULT"][i]
    /\ mem["BUFFER_A"] = pre["BUFFER_A"]
    /\ mem["BUFFER_B"] = pre["BUFFER_B"]

\* the spec's scenario, mul(4) over 1,2,3,4 and 10,20,30,40, on a RESULT that
\* held older values: 10, 40, 90, 160, then the older values
C3_Witness ==
  /\ call.fn = "mul"
  /\ call.len = 4
  /\ pre["BUFFER_A"] = Ramp
  /\ pre["BUFFER_B"] = Tens
  /\ pre["RESULT"] = Stale
  /\ \A i \in 0 .. 3 : mem["RESULT"][i] = 10 * (i + 1) * (i + 1)
  /\ mem["RESULT"][4] = 25

\* C4: scale(k, n) leaves A[i] = old A[i]*k below the effective length, leaves
\* BUFFER_A at and above it as it was, and leaves BUFFER_B and RESULT alone.
C4_ScaleFrame ==
  call.fn = "scale" =>
    /\ \A i \in Indices :
         mem["BUFFER_A"][i] =
           IF i < Effective(call.len)
           THEN fmul(pre["BUFFER_A"][i], call.scalar)
           ELSE pre["BUFFER_A"][i]
    /\ mem["BUFFER_B"] = pre["BUFFER_B"]
    /\ mem["RESULT"] = pre["RESULT"]

\* scale(3, 4) over 1,2,3,4,5,...: 3, 6, 9, 12, then 5, ..., with operands in
\* BUFFER_B and older values in RESULT
C4_Witness ==
  /\ call.fn = "scale"
  /\ call.len = 4
  /\ call.scalar = 3
  /\ pre["BUFFER_A"] = Ramp
  /\ pre["BUFFER_B"] = Tens
  /\ pre["RESULT"] = Stale
  /\ \A i \in 0 .. 3 : mem["BUFFER_A"][i] = 3 * (i + 1)
  /\ mem["BUFFER_A"][4] = 5

\* C5: for 0 <= n <= CAPACITY, sum(n) returns the left-to-right running total
\* of A[0..n).
C5_SumRunningTotal ==
  (call.fn = "sum" /\ call.len <= CAPACITY) =>
    call.ret = Total(pre["BUFFER_A"], call.len)

\* the spec's scenario: sum(4) over 1,2,3,4 returns 10
C5_Witness ==
  /\ call.fn = "sum"
  /\ call.len = 4
  /\ pre["BUFFER_A"] = Ramp
  /\ call.ret = 10

\* C6: for 0 <= n <= CAPACITY, dot(n) returns the left-to-right running total
\* of the products A[i]*B[i], i in [0, n).
C6_DotRunningTotal ==
  (call.fn = "dot" /\ call.len <= CAPACITY) =>
    call.ret = Total(Products(pre["BUFFER_A"], pre["BUFFER_B"]), call.len)

\* the spec's scenario: dot(4) over 1,2,3,4 and 10,20,30,40 returns 300
C6_Witness ==
  /\ call.fn = "dot"
  /\ call.len = 4
  /\ pre["BUFFER_A"] = Ramp
  /\ pre["BUFFER_B"] = Tens
  /\ call.ret = 300

\* the partial sum of lane k (0..3) over f[0..n): in increasing i, the elements
\* below q with i mod 4 = k, and for lane 0 also the leftover elements from q on
RECURSIVE Lane(_, _, _, _)
Lane(f, k, q, n) ==
  IF n = 0 THEN 0
  ELSE LET i == n - 1
       IN IF (i < q /\ i % 4 = k) \/ (i >= q /\ k = 0)
          THEN fadd(Lane(f, k, q, i), f[i])
          ELSE Lane(f, k, q, i)

\* the sum of the magnitudes of f[0..n), without rounding
RECURSIVE Mass(_, _)
Mass(f, n) == IF n = 0 THEN 0 ELSE Mass(f, n - 1) + Abs(f[n - 1])

\* C7: sum_simd(n) reads exactly A[0..m), m the effective length, adds each
\* element into lane i mod 4 below 4*floor(m/4) and into lane 0 from there on,
\* and returns sum0+sum1+sum2+sum3; the value is the running total sum(n)
\* computes when no addition rounds (the magnitudes add up to less than
\* 2^MantBits), and otherwise differs from it by no more than the rounding error
\* of two summations of m elements.
C7_SimdLanes ==
  call.fn = "sum_simd" =>
    LET m == Effective(call.len)
        q == 4 * (m \div 4)
        a == pre["BUFFER_A"]
        seq == Total(a, m)
    IN /\ call.rd["BUFFER_A"] = 0 .. (m - 1)
       /\ \A k \in 0 .. 3 : call.lanes[k + 1] = Lane(a, k, q, m)
       /\ call.ret =
            fadd(fadd(fadd(call.lanes[1], call.lanes[2]), call.lanes[3]),
                 call.lanes[4])
       /\ Mass(a, m) < Pow2(MantBits) => call.ret = seq
       /\ m >= 1 =>
            Abs(call.ret - seq) * (Pow2(MantBits) - (m - 1))
              <= 2 * (m - 1) * Mass(a, m)

\* sum_simd(8) over 2^MantBits, 1, 1, ...: two rounds of the unrolled loop, and
\* the value is not the one sum returns, which loses every 1
C7_Witness ==
  /\ call.fn = "sum_simd"
  /\ call.len = 8
  /\ pre["BUFFER_A"] = Big
  /\ call.lanes = <<Pow2(MantBits), 2, 2, 2>>
  /\ call.ret = Pow2(MantBits) + 6
  /\ Total(pre["BUFFER_A"], 8) = Pow2(MantBits)

\* the buffer an offset accessor is about
BufferOf(fn) ==
  CASE fn = "get_buffer_a_offset" -> "BUFFER_A"
    [] fn = "get_buffer_b_offset" -> "BUFFER_B"
    [] fn = "get_result_offset" -> "RESULT"

\* C8: whatever calls and host writes came before, get_capacity returns
\* CAPACITY (100000 in the source), each offset accessor returns the value it
\* returned the first time, and the three offsets are pairwise distinct.
C8_StableAccessors ==
  /\ call.fn = "get_capacity" => call.ret = CAPACITY
  /\ call.fn \in Accessors \ {"get_capacity"} =>
       call.ret = known[BufferOf(call.fn)]
  /\ \A n1, n2 \in BufNames :
       (n1 # n2 /\ known[n1] # Unknown /\ known[n2] # Unknown) =>
         known[n1] # known[n2]

\* get_result_offset is called again after a mul that changed RESULT, and all
\* three offsets have been obtained
C8_Witness ==
  /\ call.fn = "get_result_offset"
  /\ mem["RESULT"] \notin Leftovers
  /\ mem["BUFFER_A"] # new
  /\ \A n \in BufNames : known[n] # Unknown
  /\ call.ret = known["RESULT"]

\* C9: with n = 0, sum, dot and sum_simd return 0.0, and mul and scale (for any
\* scalar) leave every element of the three buffers as it was.
C9_ZeroLength ==
  call.len = 0 =>
    /\ call.fn \in Readers => call.ret = 0
    /\ call.fn \in {"mul", "scale"} => mem = pre

\* scale(3, 0) on operands and older results
C9_Witness ==
  /\ call.fn = "scale"
  /\ call.len = 0
  /\ call.scalar = 3
  /\ pre["BUFFER_A"] = Big
  /\ pre["BUFFER_B"] = Tens
  /\ pre["RESULT"] = Stale
  /\ mem = pre

\* C10: sum, dot, sum_simd and the accessors leave every element of the three
\* buffers as it was, so the same read-only operation called again with the
\* same length returns the same value.
C10_ReadersLeaveMemory ==
  /\ call.fn \in Readers \cup Accessors => mem = pre
  /\ call.fn \in Readers =>
       Outcome(call.fn, mem, call.scalar, call.len).ret = call.ret

\* dot has returned a nonzero value over operands and older results
C10_Witness ==
  /\ call.fn = "dot"
  /\ call.len = CAPACITY
  /\ call.ret # 0
  /\ mem["RESULT"] = Stale
  /\ mem = pre

====
